---- MODULE Spec2Model ----
(***************************************************************************)
(* Campus Food backend (FastAPI + MongoDB): order lifecycle, rating        *)
(* aggregation and presence / hunger estimation, modelled from             *)
(* src/main.py, src/models.py, src/schemas.py and src/init_db.py.          *)
(*                                                                         *)
(* A MongoDB collection is a sequence of documents in insertion order      *)
(* (find_one and update_one act on the first match).  A handler is split   *)
(* into steps only at its awaits, and only where a claim is about          *)
(* interleaving; every other handler is one action.                        *)
(***************************************************************************)
EXTENDS Integers, Sequences, FiniteSets, TLC

VARIABLES
    orders,        \* db.orders: sequence of order documents
    oreq,          \* in-flight update_order_status requests, one per slot
    sreq,          \* in-flight store, review and hunger-level requests, one per slot
    stores,        \* db.stores: sequence of store documents
    reviews,       \* db.reviews: sequence of review documents
    active_users,  \* db.active_users: sequence of presence documents
    now,           \* datetime.utcnow(), in milliseconds since midnight
    nsteps,        \* number of requests issued so far (bounds the run)
    resp           \* the last request completed and its HTTP response

vars == <<orders, oreq, sreq, stores, reviews, active_users, now, nsteps, resp>>

\* A key that a document does not have, and a request field that is not sent.
Absent == "<absent>"

\* Python's None / JSON null.
None == "<None>"

(***************************************************************************)
(* IEEE-754 binary64 arithmetic, as far as the handlers use it.            *)
(* A double is held as its exact value in fixed point: <<n1, .., n5>>,     *)
(* five limbs of LimbBits bits, n1 the integer part and n2..n5 the         *)
(* fraction, value = n1 + n2/W + n3/W^2 + n4/W^3 + n5/W^4 with             *)
(* W = 2^LimbBits.  Every double that is 0 or lies in [2^-17, 2^18) has    *)
(* such an image (its 53 significant bits end above 2^-72), and every      *)
(* quantity the handlers compute within the bounds of this model lies in   *)
(* that range.  An operation computes the exact result and rounds it to    *)
(* 53 significant bits, to nearest, ties to even, as the hardware does.    *)
(***************************************************************************)
Precision == 53

LimbBits == 18

W == 2 ^ LimbBits

NLimbs == 5

FZero == <<0, 0, 0, 0, 0>>

\* The number of bits of a limb: 0 for 0, k when 2^(k-1) <= v < 2^k.
BitLen(v) ==
    CHOOSE k \in 0..LimbBits :
        IF v = 0 THEN k = 0 ELSE k > 0 /\ 2 ^ (k - 1) <= v /\ v < 2 ^ k

\* x + unit * W^(NLimbs - la), for x whose limbs after la are 0.
AddAt(x, la, unit) ==
    [idx \in 1..NLimbs |->
        IF idx > la THEN x[idx]
        ELSE IF idx = la THEN (x[la] + unit) % W
        ELSE IF /\ x[la] + unit >= W
                /\ \A j \in (idx + 1)..(la - 1) : x[j] = W - 1
             THEN (x[idx] + 1) % W
             ELSE x[idx]]

\* The double nearest to x (plus a non-zero amount below its last limb when
\* sticky): x rounded to Precision significant bits, ties to even.
Round53(x, sticky) ==
    IF x = FZero THEN x
    ELSE LET top == CHOOSE idx \in 1..NLimbs :
                        x[idx] # 0 /\ \A j \in 1..(idx - 1) : x[j] = 0
             s   == (LimbBits * (NLimbs - top)) + BitLen(x[top]) - Precision
         IN  IF s <= 0 THEN x
             ELSE LET a     == s \div LimbBits
                      b     == s % LimbBits
                      la    == NLimbs - a
                      unit  == 2 ^ b
                      below(i) == \E j \in (i + 1)..NLimbs : x[j] # 0
                      guard == IF b >= 1
                               THEN (x[la] \div (2 ^ (b - 1))) % 2 = 1
                               ELSE x[la + 1] >= (W \div 2)
                      rest  == \/ sticky
                               \/ IF b >= 1
                                  THEN x[la] % (2 ^ (b - 1)) # 0 \/ below(la)
                                  ELSE x[la + 1] % (W \div 2) # 0 \/ below(la + 1)
                      lsb   == (x[la] \div unit) % 2 = 1
                      kept  == [idx \in 1..NLimbs |->
                                   IF idx > la THEN 0
                                   ELSE IF idx = la THEN x[la] - (x[la] % unit)
                                   ELSE x[idx]]
                  IN  IF guard /\ (rest \/ lsb) THEN AddAt(kept, la, unit) ELSE kept

\* float(n) for an integer 0 <= n < W.
FromInt(n) == <<n, 0, 0, 0, 0>>

\* int(x): truncation toward zero.
Trunc(x) == x[1]

\* n / d for Python ints n >= 0, d > 0 (true division, correctly rounded):
\* long division, one limb at a time.
DivInts(n, d) ==
    LET r1 == n % d
        r2 == (r1 * W) % d
        r3 == (r2 * W) % d
        r4 == (r3 * W) % d
        r5 == (r4 * W) % d
    IN  Round53(<<n \div d, (r1 * W) \div d, (r2 * W) \div d,
                  (r3 * W) \div d, (r4 * W) \div d>>, r5 # 0)

\* The exact product x * k for a small integer k >= 0, limb by limb from the
\* lowest (the integer part stays below W within the model's range).
MulExact(x, k) ==
    LET p5 == x[5] * k
        p4 == (x[4] * k) + (p5 \div W)
        p3 == (x[3] * k) + (p4 \div W)
        p2 == (x[2] * k) + (p3 \div W)
        p1 == (x[1] * k) + (p2 \div W)
    IN  <<p1, p2 % W, p3 % W, p4 % W, p5 % W>>

\* x * k for a double x and a small integer k >= 0 (float(k) is exact).
MulSmall(x, k) == Round53(MulExact(x, k), FALSE)

\* x * 1.5: the exact product 3x / 2, rounded once.
MulOneAndHalf(x) ==
    LET t == MulExact(x, 3)
        h == [idx \in 1..NLimbs |->
                 (t[idx] \div 2) + (IF idx > 1 /\ t[idx - 1] % 2 = 1 THEN W \div 2 ELSE 0)]
    IN  Round53(h, t[NLimbs] % 2 = 1)

\* x + v for a double x and an integer v >= 0 (float(v) is exact).
AddInt(x, v) == Round53([x EXCEPT ![1] = x[1] + v], FALSE)

\* x / k for a double x and a small integer k >= 1: long division from the top.
DivSmall(x, k) ==
    LET t2 == ((x[1] % k) * W) + x[2]
        t3 == ((t2 % k) * W) + x[3]
        t4 == ((t3 % k) * W) + x[4]
        t5 == ((t4 % k) * W) + x[5]
    IN  Round53(<<x[1] \div k, t2 \div k, t3 \div k, t4 \div k, t5 \div k>>,
                t5 % k # 0)

\* x < y for doubles.
FLess(x, y) ==
    \E i \in 1..NLimbs : x[i] < y[i] /\ \A j \in 1..(i - 1) : x[j] = y[j]

\* min(x, n) of Python for a double x and the int n: x unless n is smaller.
FMinInt(x, n) == IF FLess(FromInt(n), x) THEN FromInt(n) ELSE x

\* round(x, 1), as the number of tenths of the result: the exact value of x is
\* rounded to one decimal, ties to even.  The float returned is the double
\* nearest to tenths / 10, which is DivInts(tenths, 10).
Round1(x) ==
    LET t    == MulExact(x, 10)
        half == W \div 2
        tie  == t[2] = half /\ t[3] = 0 /\ t[4] = 0 /\ t[5] = 0
    IN  IF t[2] < half THEN t[1]
        ELSE IF tie THEN t[1] + (t[1] % 2)
        ELSE t[1] + 1

\* The double a rating of `tenths` tenths is stored as (4.3 is DivInts(43, 10)).
FromTenths(t) == DivInts(t, 10)

(***************************************************************************)
(* Bounds of the model.                                                    *)
(***************************************************************************)
\* Orders created in one run.
MaxOrders == 2

\* Requests issued in one run of the order specification.
MaxOrderRequests == 4

\* update_order_status requests that can be in flight at once.
NSlots == 2

\* Clock ticks (milliseconds) in one run of the order specification.
MaxTicks == 1

\* Store and review requests in a run.
MaxRatingRequests == 2

\* Store and review requests in a run whose requests overlap.
MaxConcurrentRequests == 2

\* Requests in a run that mixes reads and writes.
MaxReadRequests == 3

\* Reviews of one item stored before a run starts, in its larger start.
MaxStoredReviews == 999

\* Presence requests in a run.
MaxPresenceRequests == 3

\* Minutes that pass in a run of the presence handlers.
MaxMinutes == 6

\* Presence records stored before a run of the hunger queries starts.
MaxPresenceRecords == 101

\* Records gone stale before a run of the hunger queries starts.
MaxStaleRecords == 1

\* Requests in a run of the hunger queries.
MaxHungerRequests == 1

(***************************************************************************)
(* Orders: create_order and update_order_status (src/main.py 555-630).     *)
(***************************************************************************)
\* models.OrderStatus, and the list update_order_status checks against.
ValidStatuses == {"pending", "preparing", "ready", "delivered", "cancelled"}

\* The "status" values a PUT /orders/{id}/status body is drawn from: the five
\* valid ones, one that is not valid, and a body without the key.
StatusInputs == ValidStatuses \cup {"shipped", Absent}

\* The "note" values of such a body: none, or a note.
NoteInputs == {Absent, "left at the gate"}

\* models.OrderItem.  Prices are floats whose value is a whole number, so that
\* price * quantity and the running sum are exact.
OrderItem(item_id, item_name, price, quantity) ==
    [store_id |-> 1, store_name |-> "GREEN CHILLIES", item_id |-> item_id,
     item_name |-> item_name, price |-> price, quantity |-> quantity]

\* The line-item lists a POST /orders body is drawn from.
ItemLists ==
    { <<>>,
      <<OrderItem(1, "Burger", 100, 1)>>,
      <<OrderItem(1, "Burger", 100, 2), OrderItem(2, "Fries", 50, 1)>> }

\* f"ORD-{int(datetime.utcnow().timestamp() * 1000)}": the prefix and the
\* millisecond count (printed in decimal, which is one-to-one).
OrderId(ms) == <<"ORD-", ms>>

\* The order_id path parameters a request is drawn from: the id of any
\* millisecond of the run, and one that is not of that form.
OrderIdInputs == {OrderId(t) : t \in 0..MaxTicks} \cup {<<"ORD-", -1>>}

\* A create_order that forgets the quantity of each line.
RECURSIVE TotalAmountNoQuantity(_)
TotalAmountNoQuantity(items) ==
    IF items = <<>> THEN 0
    ELSE TotalAmountNoQuantity(SubSeq(items, 1, Len(items) - 1))
         + items[Len(items)].price

\* sum(item.price * item.quantity for item in order_data.items), added from
\* the left, starting at 0.
RECURSIVE TotalAmount(_)
TotalAmount(items) ==
    IF items = <<>> THEN 0
    ELSE TotalAmount(SubSeq(items, 1, Len(items) - 1))
         + items[Len(items)].price * items[Len(items)].quantity

\* A timeline entry that loses its note.
TimelineEntryNoNote(status, timestamp, note) ==
    [status |-> status, timestamp |-> timestamp, note |-> None]

\* A timeline entry.
TimelineEntry(status, timestamp, note) ==
    [status |-> status, timestamp |-> timestamp, note |-> note]

\* order_dict of create_order.
NewOrder(items, t) ==
    [order_id         |-> OrderId(t),
     user_id          |-> "u1",
     user_name        |-> "Asha",
     items            |-> items,
     total_amount     |-> TotalAmount(items),
     status           |-> "pending",
     delivery_address |-> [building |-> "B1", room |-> "101", phone |-> "555"],
     payment_method   |-> "cash",
     notes            |-> None,
     timeline         |-> <<TimelineEntry("pending", t, "Order placed")>>,
     created_at       |-> t,
     updated_at       |-> t]

\* A lookup that falls back on the first stored order.
FindOrderOrFirst(coll, order_id) ==
    IF \E i \in DOMAIN coll : coll[i].order_id = order_id
    THEN CHOOSE i \in DOMAIN coll :
            /\ coll[i].order_id = order_id
            /\ \A j \in 1..(i - 1) : coll[j].order_id # order_id
    ELSE IF coll = <<>> THEN 0 ELSE 1

\* find_one({"order_id": order_id}): the index of the first match, 0 if none.
FindOrder(coll, order_id) ==
    IF \E i \in DOMAIN coll : coll[i].order_id = order_id
    THEN CHOOSE i \in DOMAIN coll :
            /\ coll[i].order_id = order_id
            /\ \A j \in 1..(i - 1) : coll[j].order_id # order_id
    ELSE 0

\* A status check that refuses to put an order back to pending.
StatusIsValidAndNotPending(new_status) == new_status \in ValidStatuses \ {"pending"}

\* A status check that lets a body without "status" through.
StatusIsValidOrMissing(new_status) == new_status \in ValidStatuses \cup {None}

\* new_status not in [...] (None when the body has no "status").
StatusIsValid(new_status) == new_status \in ValidStatuses

\* f"Order {new_status}" for a valid status.
DefaultNote(new_status) ==
    CASE new_status = "pending" -> "Order pending"
      [] new_status = "preparing" -> "Order preparing"
      [] new_status = "ready" -> "Order ready"
      [] new_status = "delivered" -> "Order delivered"
      [] new_status = "cancelled" -> "Order cancelled"

\* An update_order_status that ignores the note of the body.
NoteIgnored(note, new_status) == DefaultNote(new_status)

\* status_data.get("note", f"Order {new_status}")
NoteOf(note, new_status) ==
    IF note = Absent THEN DefaultNote(new_status) ELSE note

\* A $set that leaves "status" out.
SetStatusTimelineOnly(order, new_status, timeline, t) ==
    [order EXCEPT !.timeline = timeline, !.updated_at = t]

\* The document after {"$set": {"status", "timeline", "updated_at"}}.
SetStatus(order, new_status, timeline, t) ==
    [order EXCEPT !.status = new_status, !.timeline = timeline, !.updated_at = t]

\* An update_many in the place of update_one.
UpdateEveryOrder(coll, order_id, new_status, timeline, t) ==
    [i \in DOMAIN coll |-> SetStatus(coll[i], new_status, timeline, t)]

\* update_one({"order_id": order_id}, {"$set": ...}): the first match is changed.
UpdateOrder(coll, order_id, new_status, timeline, t) ==
    LET i == FindOrder(coll, order_id)
    IN  IF i = 0 THEN coll
        ELSE [coll EXCEPT ![i] = SetStatus(coll[i], new_status, timeline, t)]

\* An idle request slot, and one between its find_one and its update_one.
IdleSlot ==
    [pc |-> "idle", order_id |-> None, status |-> None, note |-> None,
     timeline |-> <<>>, seq |-> 0]

Slots == 1..NSlots

\* A slot with no store, review or hunger-level request in flight.
IdleRequest == [pc |-> "idle"]

\* What a response records: the request (its number, operation, order id and
\* status sent), the HTTP status code and the data returned.
Response(seq, op, order_id, status, code, data) ==
    [seq |-> seq, op |-> op, order_id |-> order_id, status |-> status,
     code |-> code, data |-> data]

NoResponse == Response(0, None, None, None, 0, None)

\* POST /api/orders: one insert, no await before it.
CreateOrder(items) ==
    /\ nsteps < MaxOrderRequests
    /\ Len(orders) < MaxOrders
    /\ LET order_dict == NewOrder(items, now)
       IN  /\ orders' = Append(orders, order_dict)
           /\ resp' = Response(nsteps + 1, "create_order", order_dict.order_id,
                               None, 200, order_dict)
    /\ nsteps' = nsteps + 1
    /\ UNCHANGED <<oreq, sreq, stores, reviews, active_users, now>>

\* PUT /api/orders/{order_id}/status up to the return of find_one: the status
\* check, the read of the order and the new timeline built from it.
UpdateStatusRead(slot, order_id, status, note) ==
    /\ nsteps < MaxOrderRequests
    /\ oreq[slot].pc = "idle"
    /\ \A other \in 1..(slot - 1) : oreq[other].pc # "idle"
    /\ nsteps' = nsteps + 1
    /\ LET new_status == IF status = Absent THEN None ELSE status
           i == FindOrder(orders, order_id)
       IN  IF ~StatusIsValid(new_status)
           THEN /\ resp' = Response(nsteps + 1, "update_order_status", order_id,
                                    status, 400, "Invalid status")
                /\ UNCHANGED oreq
           ELSE IF i = 0
           THEN /\ resp' = Response(nsteps + 1, "update_order_status", order_id,
                                    status, 404, "Order not found")
                /\ UNCHANGED oreq
           ELSE /\ oreq' = [oreq EXCEPT ![slot] =
                    [pc |-> "update", order_id |-> order_id, status |-> new_status,
                     note |-> note,
                     timeline |-> Append(orders[i].timeline,
                         TimelineEntry(new_status, now, NoteOf(note, new_status))),
                     seq |-> nsteps + 1]]
                /\ UNCHANGED resp
    /\ UNCHANGED <<orders, sreq, stores, reviews, active_users, now>>

\* The rest of the request: update_one and the response.
UpdateStatusWrite(slot) ==
    /\ oreq[slot].pc = "update"
    /\ orders' = UpdateOrder(orders, oreq[slot].order_id, oreq[slot].status,
                             oreq[slot].timeline, now)
    /\ resp' = Response(oreq[slot].seq, "update_order_status", oreq[slot].order_id,
                        oreq[slot].status, 200, "Order status updated successfully")
    /\ oreq' = [oreq EXCEPT ![slot] = IdleSlot]
    /\ UNCHANGED <<sreq, stores, reviews, active_users, now, nsteps>>

\* A millisecond passes.
TickMs ==
    /\ now < MaxTicks
    /\ now' = now + 1
    /\ UNCHANGED <<orders, oreq, sreq, stores, reviews, active_users, nsteps, resp>>

InitOrders ==
    /\ orders = <<>>
    /\ oreq = [slot \in Slots |-> IdleSlot]
    /\ sreq = [slot \in Slots |-> IdleRequest]
    /\ stores = <<>>
    /\ reviews = <<>>
    /\ active_users = <<>>
    /\ now = 0
    /\ nsteps = 0
    /\ resp = NoResponse

NextOrders ==
    \/ \E items \in ItemLists : CreateOrder(items)
    \/ \E slot \in Slots, order_id \in OrderIdInputs,
          status \in StatusInputs, note \in NoteInputs :
            UpdateStatusRead(slot, order_id, status, note)
    \/ \E slot \in Slots : UpdateStatusWrite(slot)
    \/ TickMs

SpecOrders == InitOrders /\ [][NextOrders]_vars

\* The same handlers with one update_order_status request at a time: a
\* request starts only after the one before it has returned.
NextOrdersSequential ==
    \/ \E items \in ItemLists : CreateOrder(items)
    \/ \E order_id \in OrderIdInputs, status \in StatusInputs, note \in NoteInputs :
            UpdateStatusRead(1, order_id, status, note)
    \/ UpdateStatusWrite(1)
    \/ TickMs

SpecOrdersSequential == InitOrders /\ [][NextOrdersSequential]_vars

(***************************************************************************)
(* Claims about orders, checked under SpecOrders.                          *)
(***************************************************************************)
\* C1: every stored order has a non-empty timeline whose first entry has status
\* "pending", and no step (create_order, the read step or the write step of an
\* update_order_status request, in any interleaving) makes an order's timeline
\* shorter than it was before the step.
C1_TimelineNeverShrinks ==
    /\ [](\A i \in DOMAIN orders :
            orders[i].timeline # <<>> /\ orders[i].timeline[1].status = "pending")
    /\ [][\A i \in DOMAIN orders :
            Len(orders'[i].timeline) >= Len(orders[i].timeline)]_vars

\* C2: in every reachable state the status of the last timeline entry of every
\* stored order is the order's status, after create_order and after any number
\* of update_order_status requests, interleaved or not.
C2_LastEntryIsStatus ==
    \A i \in DOMAIN orders :
        orders[i].timeline[Len(orders[i].timeline)].status = orders[i].status

\* An order that has been updated while another request, which read it before
\* that update, is still to write.
C2_Witness ==
    \E slot \in Slots, i \in DOMAIN orders :
        /\ oreq[slot].pc = "update"
        /\ FindOrder(orders, oreq[slot].order_id) = i
        /\ Len(orders[i].timeline) >= Len(oreq[slot].timeline)
        /\ orders[i].status # "pending"

\* The sum of price * quantity over a list of line items.
C3_LineSum(items) ==
    LET sum[k \in 0..Len(items)] ==
            IF k = 0 THEN 0 ELSE sum[k - 1] + items[k].price * items[k].quantity
    IN  sum[Len(items)]

\* C3: the total_amount create_order stores and returns is the sum over the
\* request's line items of price * quantity, and in every later state the
\* order's total_amount is still that sum over its stored items.
C3_TotalIsLineSum ==
    /\ \A i \in DOMAIN orders :
          orders[i].total_amount = C3_LineSum(orders[i].items)
    /\ resp.op = "create_order" =>
          /\ resp.data.total_amount = C3_LineSum(resp.data.items)
          /\ \E i \in DOMAIN orders :
                /\ orders[i].items = resp.data.items
                /\ orders[i].total_amount = resp.data.total_amount

\* An order of 2 x 100 and 1 x 50 whose total is 250, after it was delivered.
C3_Witness ==
    \E i \in DOMAIN orders :
        /\ Len(orders[i].items) = 2
        /\ orders[i].items[1].price = 100 /\ orders[i].items[1].quantity = 2
        /\ orders[i].items[2].price = 50 /\ orders[i].items[2].quantity = 1
        /\ orders[i].total_amount = 250
        /\ orders[i].status = "delivered"

\* C4: update_order_status with a status that is missing or is not one of the
\* five valid ones answers 400 and leaves every stored order unchanged, whether
\* or not the order_id matches an order.
C4_InvalidStatusRejected ==
    [][(/\ resp'.seq # resp.seq
        /\ resp'.op = "update_order_status"
        /\ resp'.status \notin ValidStatuses)
       => (resp'.code = 400 /\ orders' = orders)]_vars

\* An update with an invalid status, for the id of a stored order, was answered 400.
C4_Witness ==
    /\ resp.op = "update_order_status"
    /\ resp.status \notin ValidStatuses
    /\ resp.code = 400
    /\ FindOrder(orders, resp.order_id) # 0

\* The status changes the order lifecycle allows.
C5_Legal(from, to) ==
    \/ from = "pending" /\ to = "preparing"
    \/ from = "preparing" /\ to = "ready"
    \/ from = "ready" /\ to = "delivered"
    \/ from \in {"pending", "preparing", "ready"} /\ to = "cancelled"

\* C5: an order's status changes only along pending -> preparing -> ready ->
\* delivered, or to cancelled from pending, preparing or ready; the status of a
\* delivered or cancelled order never changes again.
C5_OnlyLegalTransitions ==
    [][\A i \in DOMAIN orders :
          orders'[i].status # orders[i].status
              => C5_Legal(orders[i].status, orders'[i].status)]_vars

\* C10: no two stored orders share an order_id.
C10_OrderIdsDistinct ==
    \A i, j \in DOMAIN orders : i # j => orders[i].order_id # orders[j].order_id

\* C14: update_order_status with a valid status and an order_id no stored
\* order has answers 404 and inserts or modifies no order.
C14_UnknownOrderNotFound ==
    [][(/\ resp'.seq # resp.seq
        /\ resp'.op = "update_order_status"
        /\ resp'.status \in {"pending", "preparing", "ready", "delivered", "cancelled"}
        /\ \A i \in DOMAIN orders : orders[i].order_id # resp'.order_id)
       => (resp'.code = 404 /\ orders' = orders)]_vars

\* An update with a valid status was answered 404 while orders were stored.
C14_Witness ==
    /\ resp.op = "update_order_status"
    /\ resp.status = "delivered"
    /\ resp.code = 404
    /\ Len(orders) = 2

\* C15: right after create_order the new order has status pending, a timeline
\* of exactly one entry (status pending, note "Order placed", stamped at the
\* time of creation) and the order_id ORD-<millisecond of creation>, and the
\* response returns that order.
C15_NewOrderIsPending ==
    [][(resp'.seq # resp.seq /\ resp'.op = "create_order") =>
          /\ Len(orders') = Len(orders) + 1
          /\ SubSeq(orders', 1, Len(orders)) = orders
          /\ LET order == orders'[Len(orders')]
             IN  /\ order.status = "pending"
                 /\ order.timeline = << [status |-> "pending", timestamp |-> now,
                                         note |-> "Order placed"] >>
                 /\ order.order_id = <<"ORD-", now>>
                 /\ order.created_at = now
                 /\ resp'.code = 200
                 /\ resp'.data = order]_vars

\* A second order was created, in the millisecond after the first.
C15_Witness ==
    /\ resp.op = "create_order"
    /\ Len(orders) = 2
    /\ orders[1].order_id = <<"ORD-", 0>>
    /\ orders[2].order_id = <<"ORD-", 1>>
    /\ resp.data = orders[2]

\* C18: in every step, interleaved update_order_status requests on one order
\* included, the timeline of every order before the step is a prefix of its
\* timeline after the step: no stored entry is removed or altered.
C18_TimelineIsAppendOnly ==
    [][\A i \in DOMAIN orders :
          /\ Len(orders'[i].timeline) >= Len(orders[i].timeline)
          /\ SubSeq(orders'[i].timeline, 1, Len(orders[i].timeline))
                = orders[i].timeline]_vars

(***************************************************************************)
(* Claims about update_order_status requests that run one after another,   *)
(* checked under SpecOrdersSequential.                                     *)
(***************************************************************************)

\* "Order <status>".
C19_DefaultNote ==
    [s \in {"pending", "preparing", "ready", "delivered", "cancelled"} |->
        CASE s = "pending" -> "Order pending"
          [] s = "preparing" -> "Order preparing"
          [] s = "ready" -> "Order ready"
          [] s = "delivered" -> "Order delivered"
          [] s = "cancelled" -> "Order cancelled"]

\* C19: when update_order_status calls on an order run one after another with
\* valid statuses s1..sk, the timeline is then [pending, s1, .., sk] in call
\* order and the status is sk: the timeline starts with pending, and each call
\* keeps the entries stored and adds one entry, with its status and with the
\* note supplied or, when none is supplied, "Order <status>".
C19_SequentialTimeline ==
    /\ [](\A i \in DOMAIN orders : orders[i].timeline[1].status = "pending")
    /\ [][(/\ resp'.seq # resp.seq
           /\ resp'.op = "update_order_status"
           /\ resp'.code = 200) =>
             \A i \in DOMAIN orders :
                (/\ orders[i].order_id = resp'.order_id
                 /\ \A j \in 1..(i - 1) : orders[j].order_id # resp'.order_id) =>
                   LET old == orders[i].timeline
                       new == orders'[i].timeline
                   IN  /\ Len(new) = Len(old) + 1
                       /\ SubSeq(new, 1, Len(old)) = old
                       /\ new[Len(new)].status = resp'.status
                       /\ new[Len(new)].note =
                             (IF oreq[1].note = Absent
                              THEN C19_DefaultNote[resp'.status]
                              ELSE oreq[1].note)
                       /\ orders'[i].status = resp'.status]_vars

\* pending -> preparing -> delivered: a timeline of length 3 in that order, the
\* first update without a note and the second with one.
C19_Witness ==
    \E i \in DOMAIN orders :
        /\ Len(orders[i].timeline) = 3
        /\ orders[i].timeline[1].status = "pending"
        /\ orders[i].timeline[2].status = "preparing"
        /\ orders[i].timeline[2].note = "Order preparing"
        /\ orders[i].timeline[3].status = "delivered"
        /\ orders[i].timeline[3].note = "left at the gate"
        /\ orders[i].status = "delivered"

\* C20: update_order_status on a stored order with any of the five statuses
\* succeeds whatever the order's status is (delivered -> pending, cancelled ->
\* preparing, a repeat of the status): it answers 200, adds one timeline entry
\* and sets the status to the target.
C20_AnyTransitionSucceeds ==
    [][(/\ resp'.seq # resp.seq
        /\ resp'.op = "update_order_status"
        /\ resp'.status \in {"pending", "preparing", "ready", "delivered", "cancelled"}
        /\ \E i \in DOMAIN orders : orders[i].order_id = resp'.order_id) =>
          /\ resp'.code = 200
          /\ \A i \in DOMAIN orders :
                (/\ orders[i].order_id = resp'.order_id
                 /\ \A j \in 1..(i - 1) : orders[j].order_id # resp'.order_id) =>
                   /\ Len(orders'[i].timeline) = Len(orders[i].timeline) + 1
                   /\ orders'[i].timeline[Len(orders'[i].timeline)].status = resp'.status
                   /\ orders'[i].status = resp'.status]_vars

\* A delivered order was put back to pending.
C20_Witness ==
    /\ resp.op = "update_order_status"
    /\ resp.code = 200
    /\ resp.status = "pending"
    /\ \E i \in DOMAIN orders :
          /\ orders[i].order_id = resp.order_id
          /\ orders[i].status = "pending"
          /\ Len(orders[i].timeline) = 3
          /\ orders[i].timeline[2].status = "delivered"

(***************************************************************************)
(* Claims about what is kept of an order, checked under SpecOrders.        *)
(***************************************************************************)

\* C25: no step removes an order; the only step that changes a stored order
\* is the write of an update_order_status request, which changes status,
\* timeline and updated_at of the one order it matches and nothing else:
\* order_id, user_id, user_name, items, total_amount, delivery_address,
\* payment_method and notes of every order stay as they were created, and
\* all other orders are left as they were.
C25_OrdersOnlyChangeByStatusUpdate ==
    [][/\ Len(orders') >= Len(orders)
       /\ \A i \in DOMAIN orders :
             /\ DOMAIN orders'[i] = DOMAIN orders[i]
             /\ \A k \in DOMAIN orders[i] \ {"status", "timeline", "updated_at"} :
                   orders'[i][k] = orders[i][k]
             /\ orders'[i] # orders[i] =>
                   \E slot \in Slots :
                      /\ oreq[slot].pc = "update"
                      /\ oreq'[slot].pc = "idle"
                      /\ i = FindOrder(orders, oreq[slot].order_id)
                      /\ \A j \in DOMAIN orders : j # i => orders'[j] = orders[j]]_vars

\* Of two stored orders the second has had its status updated and the first
\* is as it was created.
C25_Witness ==
    /\ Len(orders) = 2
    /\ resp.op = "update_order_status"
    /\ resp.code = 200
    /\ orders[2].order_id = resp.order_id
    /\ Len(orders[2].timeline) = 2
    /\ orders[1] = NewOrder(orders[1].items, orders[1].created_at)

(***************************************************************************)
(* Stores, menus and reviews: create_review, update_item_rating,           *)
(* rate_menu_item and update_store_menu (src/main.py 314-332, 427-526,     *)
(* 892-934).  A document is a record whose domain is the set of keys it    *)
(* holds, so that a missing key and a default are what they are in the     *)
(* code.  A rating is held in tenths (46 is the double nearest 4.6); the   *)
(* ratings sent are whole stars, so a sum of ratings is exact.             *)
(***************************************************************************)

\* dict.get(key, default).
DictGet(doc, key, default) == IF key \in DOMAIN doc THEN doc[key] ELSE default

\* doc[key] = value.
DictSet(doc, key, value) ==
    [k \in DOMAIN doc \cup {key} |-> IF k = key THEN value ELSE doc[k]]

\* dict.update(upd), and $set of the fields of upd on a stored document.
DictUpdate(doc, upd) ==
    [k \in DOMAIN doc \cup DOMAIN upd |-> IF k \in DOMAIN upd THEN upd[k] ELSE doc[k]]

\* to_list(length=1000) in update_item_rating and get_active_user_stats.
ScanLimit == 1000

\* The rating and the review count of an item no review or rating has touched.
DefaultRating == 40

DefaultReviewCount == 0

\* The stores init_db.py inserts, cut to two stores and to the fields the
\* rating handlers read or write.
SeedStores ==
    << [id |-> 1, name |-> "GREEN CHILLIES", is_open |-> TRUE, updated_at |-> 0,
        menu |-> << [id |-> 1, name |-> "Spicy Chicken Burger", price |-> 120,
                     rating |-> 46, review_count |-> 45],
                    [id |-> 2, name |-> "Veg Momos", price |-> 60,
                     rating |-> 43, review_count |-> 32] >>],
       [id |-> 2, name |-> "THE HEALTHY HUT", is_open |-> TRUE, updated_at |-> 0,
        menu |-> << [id |-> 1, name |-> "Quinoa Power Bowl", price |-> 150,
                     rating |-> 48, review_count |-> 89] >>] >>

\* review_dict of create_review.
ReviewDoc(store_id, item_id, rating, t) ==
    [store_id |-> store_id, item_id |-> item_id, rating |-> rating,
     status |-> "approved", created_at |-> t, updated_at |-> t]

\* The reviews init_db.py inserts for the two stores kept.
SeedReviews == << ReviewDoc(1, 1, 5, 0), ReviewDoc(2, 1, 5, 0) >>

\* The reviews collection once n more reviews of item 1 of store 1 have been
\* submitted, with ratings 1, 2, .., 5, 1, 2, ..
StoredReviews(n) ==
    SeedReviews \o [k \in 1..n |-> ReviewDoc(1, 1, ((k - 1) % 5) + 1, 0)]

StoreIdInputs == {1, 99}

ItemIdInputs == {1, 2, 99}

\* Ratings sent: whole stars, and one value on each side of the range.
RatingInputs == {0, 3, 5, 6}

\* Bodies of PUT /api/stores/{id}/menu: an item without id, rating or
\* review_count; an explicit id next to an item without one; counters as sent.
MenuInputs ==
    { << [name |-> "Masala Dosa", price |-> 70] >>,
      << [id |-> 2, name |-> "French Fries", price |-> 50,
          rating |-> 44, review_count |-> 67],
         [name |-> "Cold Coffee", price |-> 80] >>,
      << [id |-> 1, name |-> "Green Salad Bowl", price |-> 80,
          rating |-> 42, review_count |-> -1] >> }

\* Bodies of PUT /api/stores/{id}/menu/{item_id}: any JSON object.
ItemDataInputs ==
    { [price |-> 95],
      [rating |-> 55, review_count |-> 3] }

\* A validation that only has the upper limit.
RatingAtMostFive(rating) == rating <= 5

\* Field(..., ge=1, le=5) of ReviewBase.rating and RatingRequest.rating.
RatingInRange(rating) == rating >= 1 /\ rating <= 5

\* find_one({"id": store_id}): the position of the first store with that id,
\* 0 when there is none.
FindStore(coll, store_id) ==
    IF \E i \in DOMAIN coll : coll[i].id = store_id
    THEN CHOOSE i \in DOMAIN coll :
            /\ coll[i].id = store_id
            /\ \A j \in 1..(i - 1) : coll[j].id # store_id
    ELSE 0

\* The loop "for item in menu: if item.get("id") == item_id: .. break": the
\* position of the first item with that id, 0 when there is none.
FindItem(menu, item_id) ==
    IF \E i \in DOMAIN menu : DictGet(menu[i], "id", None) = item_id
    THEN CHOOSE i \in DOMAIN menu :
            /\ DictGet(menu[i], "id", None) = item_id
            /\ \A j \in 1..(i - 1) : DictGet(menu[j], "id", None) # item_id
    ELSE 0

\* find({"store_id": .., "item_id": .., "status": "approved"}), in stored order.
ApprovedReviews(coll, store_id, item_id) ==
    LET Matches(r) == /\ r.store_id = store_id
                      /\ r.item_id = item_id
                      /\ r.status = "approved"
    IN  SelectSeq(coll, Matches)

\* cursor.to_list(length): at most length documents, the first ones.
ToList(cursor, length) ==
    SubSeq(cursor, 1, IF Len(cursor) < length THEN Len(cursor) ELSE length)

\* sum(r["rating"] for r in reviews) over reviews[lo..hi].  The ratings are
\* whole numbers, every partial sum is exact, and so the order of the
\* additions is immaterial: the sum is taken by halves.
RECURSIVE SumRatings(_, _, _)
SumRatings(revs, lo, hi) ==
    IF lo > hi THEN 0
    ELSE IF lo = hi THEN revs[lo].rating
    ELSE LET mid == (lo + hi) \div 2
         IN  SumRatings(revs, lo, mid) + SumRatings(revs, mid + 1, hi)

\* avg_rating and review_count of update_item_rating, from the reviews scanned.
ScannedRating(coll, store_id, item_id) ==
    LET revs == ToList(ApprovedReviews(coll, store_id, item_id), ScanLimit)
    IN  IF revs # <<>>
        THEN [rating |-> Round1(DivInts(SumRatings(revs, 1, Len(revs)), Len(revs))),
              review_count |-> Len(revs)]
        ELSE [rating |-> DefaultRating, review_count |-> DefaultReviewCount]

\* A recompute that sets the rating and keeps the review_count stored.
SetItemRatingKeepCount(menu, item_id, rating, review_count) ==
    LET i == FindItem(menu, item_id)
    IN  IF i = 0 THEN menu
        ELSE [menu EXCEPT ![i] = DictSet(menu[i], "rating", rating)]

\* A loop that falls back on the first item of the menu.
SetItemRatingOrFirst(menu, item_id, rating, review_count) ==
    LET i == IF FindItem(menu, item_id) = 0 /\ menu # <<>> THEN 1
             ELSE FindItem(menu, item_id)
    IN  IF i = 0 THEN menu
        ELSE [menu EXCEPT ![i] =
                DictSet(DictSet(menu[i], "rating", rating),
                        "review_count", review_count)]

\* The menu with rating and review_count set on the first item with item_id.
SetItemRating(menu, item_id, rating, review_count) ==
    LET i == FindItem(menu, item_id)
    IN  IF i = 0 THEN menu
        ELSE [menu EXCEPT ![i] =
                DictSet(DictSet(menu[i], "rating", rating),
                        "review_count", review_count)]

\* update_one({"id": store_id}, {"$set": {"menu": menu, "updated_at": now}}).
SetMenu(coll, store_id, menu, t) ==
    LET i == FindStore(coll, store_id)
    IN  IF i = 0 THEN coll
        ELSE [coll EXCEPT ![i] = [@ EXCEPT !.menu = menu, !.updated_at = t]]

\* update_item_rating(store_id, item_id): the stores collection it leaves.
UpdateItemRating(storeColl, reviewColl, store_id, item_id, t) ==
    LET scanned == ScannedRating(reviewColl, store_id, item_id)
        i == FindStore(storeColl, store_id)
    IN  IF i = 0 THEN storeColl
        ELSE SetMenu(storeColl, store_id,
                     SetItemRating(storeColl[i].menu, item_id,
                                   scanned.rating, scanned.review_count), t)

\* new_rating of rate_menu_item, rounded: round(((r * c) + v) / (c + 1), 1).
NewRating(old_rating, old_count, rating) ==
    Round1(DivSmall(AddInt(MulSmall(FromTenths(old_rating), old_count), rating),
                    old_count + 1))

\* "if 'id' not in item: item['id'] = idx + 1" of update_store_menu.
BackfillIds(menu_items) ==
    [idx \in DOMAIN menu_items |->
        IF "id" \in DOMAIN menu_items[idx] THEN menu_items[idx]
        ELSE DictSet(menu_items[idx], "id", idx)]

\* What a response of the store and review handlers records.
StoreResponse(seq, op, store_id, item_id, rating, code, data) ==
    [seq |-> seq, op |-> op, store_id |-> store_id, item_id |-> item_id,
     rating |-> rating, code |-> code, data |-> data]

\* POST /api/reviews, with no other request between its steps.
CreateReview(store_id, item_id, rating) ==
    /\ nsteps < MaxRatingRequests
    /\ nsteps' = nsteps + 1
    /\ IF ~RatingInRange(rating)
       THEN /\ resp' = StoreResponse(nsteps + 1, "create_review", store_id, item_id,
                                     rating, 422, "validation error")
            /\ UNCHANGED <<stores, reviews>>
       ELSE LET review_dict == ReviewDoc(store_id, item_id, rating, now)
            IN  /\ reviews' = Append(reviews, review_dict)
                /\ stores' = UpdateItemRating(stores, reviews', store_id, item_id, now)
                /\ resp' = StoreResponse(nsteps + 1, "create_review", store_id,
                                         item_id, rating, 200, review_dict)
    /\ UNCHANGED <<orders, oreq, sreq, active_users, now>>

\* POST /api/stores/{store_id}/menu/{item_id}/rate, with no other request
\* between its read and its write.
RateMenuItem(store_id, item_id, rating) ==
    /\ nsteps < MaxRatingRequests
    /\ nsteps' = nsteps + 1
    /\ LET s == FindStore(stores, store_id)
           menu == stores[s].menu
           i == FindItem(menu, item_id)
           old_rating == DictGet(menu[i], "rating", DefaultRating)
           old_count == DictGet(menu[i], "review_count", DefaultReviewCount)
           new_count == old_count + 1
           new_rating == NewRating(old_rating, old_count, rating)
       IN  IF ~RatingInRange(rating)
           THEN /\ resp' = StoreResponse(nsteps + 1, "rate_menu_item", store_id,
                                         item_id, rating, 422, "validation error")
                /\ UNCHANGED stores
           ELSE IF s = 0
           THEN /\ resp' = StoreResponse(nsteps + 1, "rate_menu_item", store_id,
                                         item_id, rating, 404, "Store not found")
                /\ UNCHANGED stores
           ELSE IF i = 0
           THEN /\ resp' = StoreResponse(nsteps + 1, "rate_menu_item", store_id,
                                         item_id, rating, 404, "Menu item not found")
                /\ UNCHANGED stores
           ELSE IF new_count = 0
           THEN /\ resp' = StoreResponse(nsteps + 1, "rate_menu_item", store_id,
                                         item_id, rating, 500, "ZeroDivisionError")
                /\ UNCHANGED stores
           ELSE /\ stores' = SetMenu(stores, store_id,
                                     SetItemRating(menu, item_id, new_rating, new_count),
                                     now)
                /\ resp' = StoreResponse(nsteps + 1, "rate_menu_item", store_id,
                                         item_id, rating, 200,
                                         [new_rating |-> new_rating,
                                          review_count |-> new_count])
    /\ UNCHANGED <<orders, oreq, sreq, reviews, active_users, now>>

\* PUT /api/stores/{store_id}/menu.  modified_count is 0 when no store has the
\* id, and when the update leaves the document as it was.
UpdateStoreMenu(store_id, menu_items) ==
    /\ nsteps < MaxRatingRequests
    /\ nsteps' = nsteps + 1
    /\ stores' = SetMenu(stores, store_id, BackfillIds(menu_items), now)
    /\ resp' = IF stores' = stores
               THEN StoreResponse(nsteps + 1, "update_store_menu", store_id, None,
                                  None, 404, "Store not found")
               ELSE StoreResponse(nsteps + 1, "update_store_menu", store_id, None,
                                  None, 200, "Menu updated successfully")
    /\ UNCHANGED <<orders, oreq, sreq, reviews, active_users, now>>

\* PUT /api/stores/{store_id}/menu/{item_id}, with no other request between
\* its read and its write.
UpdateMenuItem(store_id, item_id, item_data) ==
    /\ nsteps < MaxRatingRequests
    /\ nsteps' = nsteps + 1
    /\ LET s == FindStore(stores, store_id)
           menu == stores[s].menu
           i == FindItem(menu, item_id)
       IN  IF s = 0
           THEN /\ resp' = StoreResponse(nsteps + 1, "update_menu_item", store_id,
                                         item_id, None, 404, "Store not found")
                /\ UNCHANGED stores
           ELSE IF i = 0
           THEN /\ resp' = StoreResponse(nsteps + 1, "update_menu_item", store_id,
                                         item_id, None, 404, "Menu item not found")
                /\ UNCHANGED stores
           ELSE /\ stores' = SetMenu(stores, store_id,
                                     [menu EXCEPT ![i] = DictUpdate(@, item_data)], now)
                /\ resp' = StoreResponse(nsteps + 1, "update_menu_item", store_id,
                                         item_id, None, 200,
                                         "Menu item updated successfully")
    /\ UNCHANGED <<orders, oreq, sreq, reviews, active_users, now>>

\* After init_db.py and, in the second case, after MaxStoredReviews further
\* reviews of item 1 of store 1.
InitRatings ==
    /\ \E n \in {0, MaxStoredReviews} :
         /\ reviews = StoredReviews(n)
         /\ stores = IF n = 0 THEN SeedStores
                     ELSE UpdateItemRating(SeedStores, reviews, 1, 1, 0)
    /\ orders = <<>>
    /\ oreq = [slot \in Slots |-> IdleSlot]
    /\ sreq = [slot \in Slots |-> IdleRequest]
    /\ active_users = <<>>
    /\ now = 0
    /\ nsteps = 0
    /\ resp = NoResponse

NextRatings ==
    \/ \E store_id \in StoreIdInputs, item_id \in ItemIdInputs,
          rating \in RatingInputs : CreateReview(store_id, item_id, rating)
    \/ \E store_id \in StoreIdInputs, item_id \in ItemIdInputs,
          rating \in RatingInputs : RateMenuItem(store_id, item_id, rating)
    \/ \E store_id \in StoreIdInputs, menu_items \in MenuInputs :
          UpdateStoreMenu(store_id, menu_items)
    \/ \E store_id \in StoreIdInputs, item_id \in ItemIdInputs,
          item_data \in ItemDataInputs : UpdateMenuItem(store_id, item_id, item_data)
    \/ TickMs

SpecRatings == InitRatings /\ [][NextRatings]_vars

(***************************************************************************)
(* The same handlers with their awaits as scheduling points: between two   *)
(* database calls of a request any step of another request may run.  The   *)
(* k-th request of a run is held in sreq[k], from its first database call  *)
(* to its response and, as a record of what it did, afterwards.            *)
(***************************************************************************)

\* A request in flight or done: where it stands, the handler and its
\* arguments, the values it took from the document it read, the menu it holds
\* in memory from its find_one on, and its HTTP status code once done.
StoreRequest(pc, op, store_id, item_id, body, read, menu, code) ==
    [pc |-> pc, op |-> op, store_id |-> store_id, item_id |-> item_id,
     body |-> body, read |-> read, menu |-> menu, code |-> code]

\* What a finished request leaves in its slot.
Done(request, code) == [request EXCEPT !.pc = "done", !.code = code]

\* The slot of the next request.
NextSlot == nsteps + 1

\* A write that recomputes the menu from the document stored at this moment.
MenuRecomputed(coll, request) ==
    LET menu == coll[FindStore(coll, request.store_id)].menu
        i == FindItem(menu, request.item_id)
    IN  IF request.op = "rate_menu_item" /\ i # 0
        THEN SetItemRating(menu, request.item_id,
                 NewRating(DictGet(menu[i], "rating", DefaultRating),
                           DictGet(menu[i], "review_count", DefaultReviewCount),
                           request.body),
                 DictGet(menu[i], "review_count", DefaultReviewCount) + 1)
        ELSE request.menu

\* The menu of {"$set": {"menu": menu, ..}}: the list the request read with
\* find_one and changed in memory.
MenuHeld(coll, request) == request.menu

\* rate_menu_item up to the return of find_one, with the new rating and count
\* computed on the menu read.
RateRead(store_id, item_id, rating) ==
    /\ nsteps < MaxConcurrentRequests
    /\ NextSlot \in Slots
    /\ nsteps' = nsteps + 1
    /\ LET s == FindStore(stores, store_id)
           menu == stores[s].menu
           i == FindItem(menu, item_id)
           old_rating == DictGet(menu[i], "rating", DefaultRating)
           old_count == DictGet(menu[i], "review_count", DefaultReviewCount)
           new_count == old_count + 1
           request == StoreRequest("rate_write", "rate_menu_item", store_id, item_id,
                                   rating, None, <<>>, 0)
           Refuse(code, detail) ==
               /\ resp' = StoreResponse(NextSlot, "rate_menu_item", store_id, item_id,
                                        rating, code, detail)
               /\ sreq' = [sreq EXCEPT ![NextSlot] = Done(request, code)]
       IN  IF ~RatingInRange(rating) THEN Refuse(422, "validation error")
           ELSE IF s = 0 THEN Refuse(404, "Store not found")
           ELSE IF i = 0 THEN Refuse(404, "Menu item not found")
           ELSE IF new_count = 0 THEN Refuse(500, "ZeroDivisionError")
           ELSE /\ sreq' = [sreq EXCEPT ![NextSlot] =
                             [request EXCEPT
                                !.read = [rating |-> old_rating,
                                          review_count |-> old_count],
                                !.menu = SetItemRating(menu, item_id,
                                            NewRating(old_rating, old_count, rating),
                                            new_count)]]
                /\ UNCHANGED resp
    /\ UNCHANGED <<orders, oreq, stores, reviews, active_users, now>>

\* The rest of rate_menu_item: update_one with the menu held, and the response.
RateWrite(slot) ==
    /\ sreq[slot].pc = "rate_write"
    /\ LET request == sreq[slot]
           menu == MenuHeld(stores, request)
           item == menu[FindItem(menu, request.item_id)]
       IN  /\ stores' = SetMenu(stores, request.store_id, menu, now)
           /\ resp' = StoreResponse(slot, "rate_menu_item", request.store_id,
                                    request.item_id, request.body, 200,
                                    [new_rating |-> item.rating,
                                     review_count |-> item.review_count])
           /\ sreq' = [sreq EXCEPT ![slot] = Done(request, 200)]
    /\ UNCHANGED <<orders, oreq, reviews, active_users, now, nsteps>>

\* create_review up to the return of insert_one.
ReviewInsert(store_id, item_id, rating) ==
    /\ nsteps < MaxConcurrentRequests
    /\ NextSlot \in Slots
    /\ nsteps' = nsteps + 1
    /\ LET request == StoreRequest("review_scan", "create_review", store_id, item_id,
                                   rating, None, <<>>, 0)
       IN  IF ~RatingInRange(rating)
           THEN /\ resp' = StoreResponse(NextSlot, "create_review", store_id, item_id,
                                         rating, 422, "validation error")
                /\ sreq' = [sreq EXCEPT ![NextSlot] = Done(request, 422)]
                /\ UNCHANGED reviews
           ELSE /\ reviews' = Append(reviews, ReviewDoc(store_id, item_id, rating, now))
                /\ sreq' = [sreq EXCEPT ![NextSlot] = request]
                /\ UNCHANGED resp
    /\ UNCHANGED <<orders, oreq, stores, active_users, now>>

\* update_item_rating up to the return of to_list: the average and the count
\* of the reviews stored at this moment.
ReviewScan(slot) ==
    /\ sreq[slot].pc = "review_scan"
    /\ LET request == sreq[slot]
       IN  sreq' = [sreq EXCEPT ![slot] =
                     [request EXCEPT
                        !.pc = "review_read",
                        !.read = ScannedRating(reviews, request.store_id,
                                               request.item_id)]]
    /\ UNCHANGED <<orders, oreq, stores, reviews, active_users, now, nsteps, resp>>

\* update_item_rating up to the return of find_one: without a store the
\* request is over, with one the scanned values are set on the menu read.
ReviewReadStore(slot) ==
    /\ sreq[slot].pc = "review_read"
    /\ LET request == sreq[slot]
           s == FindStore(stores, request.store_id)
       IN  IF s = 0
           THEN /\ resp' = StoreResponse(slot, "create_review", request.store_id,
                                         request.item_id, request.body, 200,
                                         "Review submitted successfully")
                /\ sreq' = [sreq EXCEPT ![slot] = Done(request, 200)]
           ELSE /\ sreq' = [sreq EXCEPT ![slot] =
                             [request EXCEPT
                                !.pc = "review_write",
                                !.menu = SetItemRating(stores[s].menu, request.item_id,
                                            request.read.rating,
                                            request.read.review_count)]]
                /\ UNCHANGED resp
    /\ UNCHANGED <<orders, oreq, stores, reviews, active_users, now, nsteps>>

\* The rest of create_review: update_one with the menu held, and the response.
ReviewWriteStore(slot) ==
    /\ sreq[slot].pc = "review_write"
    /\ LET request == sreq[slot]
       IN  /\ stores' = SetMenu(stores, request.store_id,
                                MenuHeld(stores, request), now)
           /\ resp' = StoreResponse(slot, "create_review", request.store_id,
                                    request.item_id, request.body, 200,
                                    "Review submitted successfully")
           /\ sreq' = [sreq EXCEPT ![slot] = Done(request, 200)]
    /\ UNCHANGED <<orders, oreq, reviews, active_users, now, nsteps>>

\* update_menu_item up to the return of find_one, with the body merged into
\* the item of the menu read.
ItemRead(store_id, item_id, item_data) ==
    /\ nsteps < MaxConcurrentRequests
    /\ NextSlot \in Slots
    /\ nsteps' = nsteps + 1
    /\ LET s == FindStore(stores, store_id)
           menu == stores[s].menu
           i == FindItem(menu, item_id)
           request == StoreRequest("item_write", "update_menu_item", store_id, item_id,
                                   item_data, None, <<>>, 0)
           Refuse(code, detail) ==
               /\ resp' = StoreResponse(NextSlot, "update_menu_item", store_id,
                                        item_id, None, code, detail)
               /\ sreq' = [sreq EXCEPT ![NextSlot] = Done(request, code)]
       IN  IF s = 0 THEN Refuse(404, "Store not found")
           ELSE IF i = 0 THEN Refuse(404, "Menu item not found")
           ELSE /\ sreq' = [sreq EXCEPT ![NextSlot] =
                             [request EXCEPT
                                !.menu = [menu EXCEPT ![i] = DictUpdate(@, item_data)]]]
                /\ UNCHANGED resp
    /\ UNCHANGED <<orders, oreq, stores, reviews, active_users, now>>

\* The rest of update_menu_item: update_one with the menu held, and the
\* response.
ItemWrite(slot) ==
    /\ sreq[slot].pc = "item_write"
    /\ LET request == sreq[slot]
       IN  /\ stores' = SetMenu(stores, request.store_id,
                                MenuHeld(stores, request), now)
           /\ resp' = StoreResponse(slot, "update_menu_item", request.store_id,
                                    request.item_id, None, 200,
                                    "Menu item updated successfully")
           /\ sreq' = [sreq EXCEPT ![slot] = Done(request, 200)]
    /\ UNCHANGED <<orders, oreq, reviews, active_users, now, nsteps>>

\* After init_db.py.
InitRatingsConcurrent ==
    /\ InitRatings
    /\ reviews = SeedReviews

NextRatingsConcurrent ==
    \/ \E store_id \in StoreIdInputs, item_id \in ItemIdInputs,
          rating \in RatingInputs : RateRead(store_id, item_id, rating)
    \/ \E slot \in Slots : RateWrite(slot)
    \/ \E store_id \in StoreIdInputs, item_id \in ItemIdInputs,
          rating \in RatingInputs : ReviewInsert(store_id, item_id, rating)
    \/ \E slot \in Slots : ReviewScan(slot)
    \/ \E slot \in Slots : ReviewReadStore(slot)
    \/ \E slot \in Slots : ReviewWriteStore(slot)
    \/ \E store_id \in StoreIdInputs, item_id \in ItemIdInputs,
          item_data \in ItemDataInputs : ItemRead(store_id, item_id, item_data)
    \/ \E slot \in Slots : ItemWrite(slot)
    \/ TickMs

SpecRatingsConcurrent == InitRatingsConcurrent /\ [][NextRatingsConcurrent]_vars

(***************************************************************************)
(* Presence and hunger level: add_active_user, update_user_activity,       *)
(* remove_active_user, get_active_user_count, get_hunger_level and         *)
(* get_active_user_stats (src/main.py 635-808).  The clock `now` counts    *)
(* milliseconds from a midnight UTC.                                       *)
(***************************************************************************)

MsPerMinute == 60000

MsPerHour == 3600000

HoursPerDay == 24

\* timedelta(minutes=5).
WindowMinutes == 5

\* The 100 of "(active_users / 100) * 100" and of "min(.., 100)".
HungerScale == 100

\* datetime.utcnow().hour.
HourOf(t) == (t \div MsPerHour) % HoursPerDay

\* Peak hours: 11-14 and 18-21.
IsPeak(current_hour) ==
    \/ 11 <= current_hour /\ current_hour <= 14
    \/ 18 <= current_hour /\ current_hour <= 21

\* A user id is a string; <<"user", k>> stands for the k-th one.
UserId(k) == <<"user", k>>

EmptyDict == <<>>

\* DeviceInfo(...).dict().
MobileDevice == [type |-> "mobile", os |-> "android", browser |-> None]

\* user_dict of add_active_user for the body user_data at time t.  A key the
\* body omits has the default of ActiveUserBase: is_ordering False,
\* current_store None, device_info None, and a device_info of None is stored
\* as {}.
UserDict(user_data, t) ==
    [user_id |-> user_data.user_id,
     session_id |-> user_data.session_id,
     timestamp |-> t,
     is_ordering |-> DictGet(user_data, "is_ordering", FALSE),
     current_store |-> DictGet(user_data, "current_store", None),
     device_info |-> DictGet(user_data, "device_info", EmptyDict),
     last_activity |-> t]

\* Two heartbeat bodies of a user: the required fields only, and every field.
Heartbeat(user_id, full) ==
    IF full
    THEN [user_id |-> user_id, session_id |-> "session-b", is_ordering |-> TRUE,
          current_store |-> "greenchillies", device_info |-> MobileDevice]
    ELSE [user_id |-> user_id, session_id |-> "session-a"]

UserIdInputs == {UserId(1), UserId(2)}

\* Bodies of PUT /api/active-users/{user_id}/activity: any JSON object.
ActivityInputs ==
    { EmptyDict,
      [is_ordering |-> TRUE],
      [current_store |-> "healthyhut", cart_items |-> 2],
      [user_id |-> UserId(2)] }

\* The first record with that user_id, 0 when there is none.
FindUser(coll, user_id) ==
    IF \E i \in DOMAIN coll : coll[i].user_id = user_id
    THEN CHOOSE i \in DOMAIN coll :
            /\ coll[i].user_id = user_id
            /\ \A j \in 1..(i - 1) : coll[j].user_id # user_id
    ELSE 0

\* The unique index on active_users.user_id which init_db.py creates: a write
\* that would leave two records with one user_id fails with DuplicateKeyError.
IndexIgnored(coll) == TRUE

UniqueUserIdIndex(coll) ==
    \A i, j \in DOMAIN coll : coll[i].user_id = coll[j].user_id => i = j

\* update_one({"user_id": user_id}, {"$set": user_dict}, upsert=True).
Upsert(coll, user_id, user_dict) ==
    LET i == FindUser(coll, user_id)
    IN  IF i = 0 THEN Append(coll, user_dict)
        ELSE [coll EXCEPT ![i] = DictUpdate(@, user_dict)]

\* delete_one({"user_id": user_id}).
DeleteOne(coll, user_id) ==
    LET i == FindUser(coll, user_id)
    IN  IF i = 0 THEN coll
        ELSE SubSeq(coll, 1, i - 1) \o SubSeq(coll, i + 1, Len(coll))

\* five_min_ago = utcnow() - timedelta(minutes=5).
FiveMinAgo(t) == t - (WindowMinutes * MsPerMinute)

\* count_documents({"last_activity": {"$gte": five_min_ago}}).
ActiveCount(coll, t) ==
    Cardinality({i \in DOMAIN coll : coll[i].last_activity >= FiveMinAgo(t)})

\* count_documents({"is_ordering": True, "last_activity": {"$gte": ..}}).
OrderingCount(coll, t) ==
    Cardinality({i \in DOMAIN coll :
                    /\ DictGet(coll[i], "is_ordering", None) = TRUE
                    /\ coll[i].last_activity >= FiveMinAgo(t)})

\* hunger_level for a count of active users and an hour:
\* int(min(.., 100)) of min((active_users / 100) * 100, 100), times 1.5 and
\* capped again in peak hours.
HungerLevel(active_users_count, current_hour) ==
    LET scaled == MulSmall(DivInts(active_users_count, HungerScale), HungerScale)
        base_hunger == FMinInt(scaled, HungerScale)
        peak_hunger == IF IsPeak(current_hour)
                       THEN FMinInt(MulOneAndHalf(base_hunger), HungerScale)
                       ELSE base_hunger
    IN  Trunc(peak_hunger)

\* What a response of the presence handlers records: the request, the HTTP
\* status code, the data returned and, for the handlers that write, the record
\* the user had before the call (<<record>>, or <<>> when there was none).
PresenceResponse(seq, op, user_id, body, code, data, before) ==
    [seq |-> seq, op |-> op, user_id |-> user_id, body |-> body,
     code |-> code, data |-> data, before |-> before]

RecordOf(coll, user_id) ==
    IF FindUser(coll, user_id) = 0 THEN <<>> ELSE <<coll[FindUser(coll, user_id)]>>

\* POST /api/active-users.
AddActiveUser(user_data) ==
    /\ nsteps < MaxPresenceRequests
    /\ nsteps' = nsteps + 1
    /\ active_users' = Upsert(active_users, user_data.user_id, UserDict(user_data, now))
    /\ resp' = PresenceResponse(nsteps + 1, "add_active_user", user_data.user_id,
                                user_data, 200, "Active user updated",
                                RecordOf(active_users, user_data.user_id))
    /\ UNCHANGED <<orders, oreq, sreq, stores, reviews, now>>

\* PUT /api/active-users/{user_id}/activity.
UpdateUserActivity(user_id, activity_data) ==
    /\ nsteps < MaxPresenceRequests
    /\ nsteps' = nsteps + 1
    /\ LET i == FindUser(active_users, user_id)
           update_dict == DictUpdate([last_activity |-> now], activity_data)
           updated == [active_users EXCEPT ![i] = DictUpdate(@, update_dict)]
       IN  IF i = 0
           THEN /\ resp' = PresenceResponse(nsteps + 1, "update_user_activity", user_id,
                                            activity_data, 404, "User not found", <<>>)
                /\ UNCHANGED active_users
           ELSE IF ~UniqueUserIdIndex(updated)
           THEN /\ resp' = PresenceResponse(nsteps + 1, "update_user_activity", user_id,
                                            activity_data, 500, "DuplicateKeyError",
                                            <<active_users[i]>>)
                /\ UNCHANGED active_users
           ELSE /\ active_users' = updated
                /\ resp' = PresenceResponse(nsteps + 1, "update_user_activity", user_id,
                                            activity_data, 200, "Activity updated",
                                            <<active_users[i]>>)
    /\ UNCHANGED <<orders, oreq, sreq, stores, reviews, now>>

\* DELETE /api/active-users/{user_id}.
RemoveActiveUser(user_id) ==
    /\ nsteps < MaxPresenceRequests
    /\ nsteps' = nsteps + 1
    /\ active_users' = DeleteOne(active_users, user_id)
    /\ resp' = PresenceResponse(nsteps + 1, "remove_active_user", user_id, None,
                                200, "User removed", RecordOf(active_users, user_id))
    /\ UNCHANGED <<orders, oreq, sreq, stores, reviews, now>>

\* GET /api/active-users/count.
GetActiveUserCount ==
    /\ nsteps < MaxPresenceRequests
    /\ nsteps' = nsteps + 1
    /\ resp' = PresenceResponse(nsteps + 1, "get_active_user_count", None, None, 200,
                                [count |-> ActiveCount(active_users, now)], <<>>)
    /\ UNCHANGED <<orders, oreq, sreq, stores, reviews, active_users, now>>

\* GET /api/active-users/hunger-level, its two counts taken with no write
\* between them.
GetHungerLevel ==
    /\ nsteps < MaxPresenceRequests
    /\ nsteps' = nsteps + 1
    /\ LET active == ActiveCount(active_users, now)
       IN  resp' = PresenceResponse(nsteps + 1, "get_hunger_level", None, None, 200,
                       [hunger_level |-> HungerLevel(active, HourOf(now)),
                        active_users |-> active,
                        ordering_users |-> OrderingCount(active_users, now)],
                       <<>>)
    /\ UNCHANGED <<orders, oreq, sreq, stores, reviews, active_users, now>>

\* GET /api/active-users/stats: the active records are listed (at most 1000 of
\* them) and counted in the handler.
GetActiveUserStats ==
    /\ nsteps < MaxPresenceRequests
    /\ nsteps' = nsteps + 1
    /\ LET Active(u) == u.last_activity >= FiveMinAgo(now)
           active_users_list == ToList(SelectSeq(active_users, Active), ScanLimit)
           ordering_count ==
               Cardinality({i \in DOMAIN active_users_list :
                               DictGet(active_users_list[i], "is_ordering", None) = TRUE})
           StoreOf(u) == DictGet(u, "current_store", None)
           DeviceOf(u) == DictGet(DictGet(u, "device_info", EmptyDict), "type", "unknown")
           by_store ==
               [s \in {StoreOf(active_users_list[i]) : i \in DOMAIN active_users_list}
                          \ {None, ""} |->
                   Cardinality({i \in DOMAIN active_users_list :
                                   StoreOf(active_users_list[i]) = s})]
           by_device ==
               [d \in {DeviceOf(active_users_list[i]) : i \in DOMAIN active_users_list} |->
                   Cardinality({i \in DOMAIN active_users_list :
                                   DeviceOf(active_users_list[i]) = d})]
       IN  resp' = PresenceResponse(nsteps + 1, "get_active_user_stats", None, None, 200,
                       [active_users |-> Len(active_users_list),
                        ordering_users |-> ordering_count,
                        hunger_level |-> HungerLevel(Len(active_users_list), HourOf(now)),
                        by_store |-> by_store,
                        by_device |-> by_device,
                        timestamp |-> now],
                       <<>>)
    /\ UNCHANGED <<orders, oreq, sreq, stores, reviews, active_users, now>>

\* A minute passes.
TickMinute ==
    /\ (now % MsPerHour) \div MsPerMinute < MaxMinutes
    /\ now' = now + MsPerMinute
    /\ UNCHANGED <<orders, oreq, sreq, stores, reviews, active_users, nsteps, resp>>

\* After init_db.py: no presence record.
InitPresence ==
    /\ orders = <<>>
    /\ oreq = [slot \in Slots |-> IdleSlot]
    /\ sreq = [slot \in Slots |-> IdleRequest]
    /\ stores = <<>>
    /\ reviews = <<>>
    /\ active_users = <<>>
    /\ now = 0
    /\ nsteps = 0
    /\ resp = NoResponse

NextPresence ==
    \/ \E user_id \in UserIdInputs, full \in BOOLEAN :
          AddActiveUser(Heartbeat(user_id, full))
    \/ \E user_id \in UserIdInputs, activity_data \in ActivityInputs :
          UpdateUserActivity(user_id, activity_data)
    \/ \E user_id \in UserIdInputs : RemoveActiveUser(user_id)
    \/ TickMinute

SpecPresence == InitPresence /\ [][NextPresence]_vars

\* GET /api/active-users/hunger-level up to the return of its first
\* count_documents: five_min_ago is taken from the clock and the active
\* records are counted.
HungerLevelCountActive(slot) ==
    /\ nsteps < MaxPresenceRequests
    /\ sreq[slot].pc = "idle"
    /\ \A other \in 1..(slot - 1) : sreq[other].pc # "idle"
    /\ nsteps' = nsteps + 1
    /\ sreq' = [sreq EXCEPT ![slot] =
                  [pc |-> "count_ordering", started_at |-> now,
                   active_users |-> ActiveCount(active_users, now),
                   seq |-> nsteps + 1]]
    /\ UNCHANGED <<orders, oreq, stores, reviews, active_users, now, resp>>

\* The rest of the request: the second count_documents, made with the
\* five_min_ago of the first, the hour read from the clock, and the response.
HungerLevelCountOrdering(slot) ==
    /\ sreq[slot].pc = "count_ordering"
    /\ resp' = PresenceResponse(sreq[slot].seq, "get_hunger_level", None, None, 200,
                    [hunger_level |-> HungerLevel(sreq[slot].active_users, HourOf(now)),
                     active_users |-> sreq[slot].active_users,
                     ordering_users |-> OrderingCount(active_users, sreq[slot].started_at)],
                    <<>>)
    /\ sreq' = [sreq EXCEPT ![slot] = IdleRequest]
    /\ UNCHANGED <<orders, oreq, stores, reviews, active_users, now, nsteps>>

\* The presence handlers with hunger-level requests in flight: every other
\* handler makes one database call, so it runs whole between the two counts.
NextPresenceConcurrent ==
    \/ \E user_id \in UserIdInputs, full \in BOOLEAN :
          AddActiveUser(Heartbeat(user_id, full))
    \/ \E user_id \in UserIdInputs, activity_data \in ActivityInputs :
          UpdateUserActivity(user_id, activity_data)
    \/ \E user_id \in UserIdInputs : RemoveActiveUser(user_id)
    \/ \E slot \in Slots : HungerLevelCountActive(slot)
    \/ \E slot \in Slots : HungerLevelCountOrdering(slot)
    \/ TickMinute

SpecPresenceConcurrent == InitPresence /\ [][NextPresenceConcurrent]_vars

\* The presence collection once users first..last have each sent a heartbeat
\* at time t, every second one while ordering.
HeartbeatsOf(first, last, t) ==
    [k \in 1..(last - first + 1) |->
        UserDict(Heartbeat(UserId(first + k - 1), (first + k - 1) % 2 = 0), t)]

\* Six minutes into some hour of the day: up to MaxStaleRecords users sent
\* their last heartbeat at the top of the hour, and up to MaxPresenceRecords
\* others, or one more than a listing returns, have just sent theirs.
InitHunger ==
    /\ orders = <<>>
    /\ oreq = [slot \in Slots |-> IdleSlot]
    /\ sreq = [slot \in Slots |-> IdleRequest]
    /\ stores = <<>>
    /\ reviews = <<>>
    /\ \E stale \in 0..MaxStaleRecords,
          n \in (0..MaxPresenceRecords) \cup {ScanLimit + 1},
          hour \in 0..(HoursPerDay - 1) :
         /\ now = (hour * MsPerHour) + ((WindowMinutes + 1) * MsPerMinute)
         /\ active_users = HeartbeatsOf(1, stale, hour * MsPerHour)
                              \o HeartbeatsOf(stale + 1, stale + n, now)
    /\ nsteps = 0
    /\ resp = NoResponse

NextHunger ==
    \/ nsteps < MaxHungerRequests /\ GetActiveUserCount
    \/ nsteps < MaxHungerRequests /\ GetHungerLevel
    \/ nsteps < MaxHungerRequests /\ GetActiveUserStats

SpecHunger == InitHunger /\ [][NextHunger]_vars

(***************************************************************************)
(* The read handlers: get_all_stores, get_store, get_store_menu,           *)
(* get_reviews, get_review_stats and get_orders (src/main.py 214-311,      *)
(* 369-390, 461-488, 531-552), next to the three presence reads above.  A  *)
(* query is the record of the parameters that were sent.                   *)
(***************************************************************************)

\* to_list(length=100) of the listing handlers.
ReadLimit == 100

\* What a response of a read handler records.
ReadResponse(seq, op, query, code, data) ==
    [seq |-> seq, op |-> op, query |-> query, code |-> code, data |-> data]

\* store_helper, cut to the fields modelled.
StoreHelper(store) ==
    [id |-> DictGet(store, "_id", None),
     name |-> DictGet(store, "name", None),
     rating |-> DictGet(store, "rating", DefaultRating),
     is_open |-> DictGet(store, "is_open", TRUE),
     menu |-> DictGet(store, "menu", <<>>),
     updated_at |-> DictGet(store, "updated_at", None)]

\* review_helper, cut to the fields modelled.
ReviewHelper(review) ==
    [store_id |-> DictGet(review, "store_id", None),
     item_id |-> DictGet(review, "item_id", None),
     rating |-> DictGet(review, "rating", None),
     status |-> DictGet(review, "status", "approved"),
     created_at |-> DictGet(review, "created_at", None),
     updated_at |-> DictGet(review, "updated_at", None)]

\* order_helper.
OrderHelper(order) ==
    [id |-> DictGet(order, "_id", None),
     order_id |-> DictGet(order, "order_id", None),
     user_id |-> DictGet(order, "user_id", None),
     user_name |-> DictGet(order, "user_name", None),
     items |-> DictGet(order, "items", <<>>),
     total_amount |-> DictGet(order, "total_amount", None),
     status |-> DictGet(order, "status", "pending"),
     delivery_address |-> DictGet(order, "delivery_address", None),
     payment_method |-> DictGet(order, "payment_method", None),
     notes |-> DictGet(order, "notes", None),
     timeline |-> DictGet(order, "timeline", <<>>),
     created_at |-> DictGet(order, "created_at", None),
     updated_at |-> DictGet(order, "updated_at", None)]

\* A loop that numbers every item by its position.
EnsureIdsByPosition(menu) ==
    [idx \in DOMAIN menu |-> DictSet(menu[idx], "id", idx)]

\* "if 'id' not in item: item['id'] = idx + 1" of get_all_stores, on the copy
\* of the menu that the handler holds.
EnsureIds(menu) ==
    [idx \in DOMAIN menu |->
        IF "id" \in DOMAIN menu[idx] THEN menu[idx]
        ELSE DictSet(menu[idx], "id", idx)]

\* find(..).sort("created_at", -1): the documents by created_at, latest
\* first; documents of one created_at come in any order.
SortNewestFirst(docs) ==
    LET n == Len(docs)
        Orders == {f \in [1..n -> 1..n] :
                     /\ \A i, j \in 1..n : f[i] = f[j] => i = j
                     /\ \A i \in 1..(n - 1) :
                           docs[f[i]].created_at >= docs[f[i + 1]].created_at}
    IN  {[k \in 1..n |-> docs[f[k]]] : f \in Orders}

\* The parameters the listing handlers are called with.
StoreQueries == { EmptyDict, [open |-> TRUE], [open |-> FALSE] }

ReviewQueries == { EmptyDict, [store_id |-> 1], [store_id |-> 1, item_id |-> 2] }

OrderQueries ==
    { EmptyDict, [status |-> "pending"], [user_id |-> "u2"], [store_id |-> 1] }

\* GET /api/stores.
GetAllStores(query) ==
    /\ nsteps < MaxReadRequests
    /\ nsteps' = nsteps + 1
    /\ LET Matches(store) ==
               "open" \in DOMAIN query =>
                  ("is_open" \in DOMAIN store /\ store.is_open = query.open)
           found == ToList(SelectSeq(stores, Matches), ReadLimit)
           result == [k \in DOMAIN found |->
                        StoreHelper(DictSet(found[k], "menu",
                                            EnsureIds(DictGet(found[k], "menu", <<>>))))]
       IN  resp' = ReadResponse(nsteps + 1, "get_all_stores", query, 200, result)
    /\ UNCHANGED <<orders, oreq, sreq, stores, reviews, active_users, now>>

\* GET /api/stores/{store_id}.
GetStore(store_id) ==
    /\ nsteps < MaxReadRequests
    /\ nsteps' = nsteps + 1
    /\ LET s == FindStore(stores, store_id)
           query == [store_id |-> store_id]
       IN  resp' = IF s = 0
                   THEN ReadResponse(nsteps + 1, "get_store", query, 404,
                                     "Store not found")
                   ELSE ReadResponse(nsteps + 1, "get_store", query, 200,
                                     StoreHelper(stores[s]))
    /\ UNCHANGED <<orders, oreq, sreq, stores, reviews, active_users, now>>

\* GET /api/stores/{store_id}/menu.
GetStoreMenu(store_id) ==
    /\ nsteps < MaxReadRequests
    /\ nsteps' = nsteps + 1
    /\ LET s == FindStore(stores, store_id)
           query == [store_id |-> store_id]
       IN  resp' = IF s = 0
                   THEN ReadResponse(nsteps + 1, "get_store_menu", query, 404,
                                     "Store not found")
                   ELSE ReadResponse(nsteps + 1, "get_store_menu", query, 200,
                                     DictGet(stores[s], "menu", <<>>))
    /\ UNCHANGED <<orders, oreq, sreq, stores, reviews, active_users, now>>

\* GET /api/reviews.
GetReviews(query) ==
    /\ nsteps < MaxReadRequests
    /\ nsteps' = nsteps + 1
    /\ LET Matches(review) ==
               /\ review.status = "approved"
               /\ "store_id" \in DOMAIN query => review.store_id = query.store_id
               /\ "item_id" \in DOMAIN query => review.item_id = query.item_id
       IN  \E sorted \in SortNewestFirst(SelectSeq(reviews, Matches)) :
              LET found == ToList(sorted, ReadLimit)
              IN  resp' = ReadResponse(nsteps + 1, "get_reviews", query, 200,
                              [k \in DOMAIN found |-> ReviewHelper(found[k])])
    /\ UNCHANGED <<orders, oreq, sreq, stores, reviews, active_users, now>>

\* GET /api/reviews/stats/{store_id}/{item_id}.
GetReviewStats(store_id, item_id) ==
    /\ nsteps < MaxReadRequests
    /\ nsteps' = nsteps + 1
    /\ LET revs == ToList(ApprovedReviews(reviews, store_id, item_id), ScanLimit)
           data == IF revs = <<>>
                   THEN [rating |-> DefaultRating, count |-> DefaultReviewCount]
                   ELSE [rating |-> Round1(DivInts(SumRatings(revs, 1, Len(revs)),
                                                   Len(revs))),
                         count |-> Len(revs)]
       IN  resp' = ReadResponse(nsteps + 1, "get_review_stats",
                                [store_id |-> store_id, item_id |-> item_id], 200, data)
    /\ UNCHANGED <<orders, oreq, sreq, stores, reviews, active_users, now>>

\* GET /api/orders.
GetOrders(query) ==
    /\ nsteps < MaxReadRequests
    /\ nsteps' = nsteps + 1
    /\ LET Matches(order) ==
               /\ "user_id" \in DOMAIN query => order.user_id = query.user_id
               /\ "store_id" \in DOMAIN query =>
                     \E i \in DOMAIN order.items :
                        order.items[i].store_id = query.store_id
               /\ "status" \in DOMAIN query => order.status = query.status
       IN  \E sorted \in SortNewestFirst(SelectSeq(orders, Matches)) :
              LET found == ToList(sorted, ReadLimit)
              IN  resp' = ReadResponse(nsteps + 1, "get_orders", query, 200,
                              [k \in DOMAIN found |-> OrderHelper(found[k])])
    /\ UNCHANGED <<orders, oreq, sreq, stores, reviews, active_users, now>>

\* The reads, with writes of each collection before and between them.
NextReads ==
    \/ \E query \in StoreQueries : GetAllStores(query)
    \/ \E store_id \in StoreIdInputs : GetStore(store_id)
    \/ \E store_id \in StoreIdInputs : GetStoreMenu(store_id)
    \/ \E query \in ReviewQueries : GetReviews(query)
    \/ \E store_id \in StoreIdInputs, item_id \in ItemIdInputs :
          GetReviewStats(store_id, item_id)
    \/ \E query \in OrderQueries : GetOrders(query)
    \/ GetActiveUserCount
    \/ GetHungerLevel
    \/ GetActiveUserStats
    \/ \E items \in ItemLists : CreateOrder(items)
    \/ \E menu_items \in MenuInputs : UpdateStoreMenu(1, menu_items)
    \/ CreateReview(1, 2, 3)
    \/ \E full \in BOOLEAN : AddActiveUser(Heartbeat(UserId(1), full))

SpecReads == InitRatingsConcurrent /\ [][NextReads]_vars

(***************************************************************************)
(* Claims about the read handlers, checked under SpecReads.                *)
(***************************************************************************)

\* C26: a read (get_all_stores, get_store, get_store_menu, get_reviews,
\* get_review_stats, get_orders, get_active_user_count, get_hunger_level,
\* get_active_user_stats) leaves the four collections as they were; the menus
\* that get_all_stores returns are the stored ones, with an id added only in
\* the response to an item stored without one; and of two identical store
\* reads with no write between them the second returns what the first did.
C26_ReadsChangeNothing ==
    [][(/\ resp'.seq # resp.seq
        /\ resp'.op \in {"get_all_stores", "get_store", "get_store_menu",
                          "get_reviews", "get_review_stats", "get_orders",
                          "get_active_user_count", "get_hunger_level",
                          "get_active_user_stats"}) =>
          /\ orders' = orders
          /\ stores' = stores
          /\ reviews' = reviews
          /\ active_users' = active_users
          /\ resp'.op = "get_all_stores" =>
                \A k \in DOMAIN resp'.data :
                   \E s \in DOMAIN stores :
                      /\ stores[s].name = resp'.data[k].name
                      /\ DOMAIN resp'.data[k].menu = DOMAIN stores[s].menu
                      /\ \A i \in DOMAIN stores[s].menu :
                            resp'.data[k].menu[i] =
                               IF "id" \in DOMAIN stores[s].menu[i]
                               THEN stores[s].menu[i]
                               ELSE DictSet(stores[s].menu[i], "id", i)
          /\ (/\ resp'.op \in {"get_all_stores", "get_store", "get_store_menu"}
              /\ resp.op = resp'.op
              /\ resp.query = resp'.query) =>
                /\ resp'.code = resp.code
                /\ resp'.data = resp.data]_vars

\* get_all_stores has answered after a menu was replaced: the menu it
\* returns for store 1 is the one stored, of two items.
C26_Witness ==
    /\ resp.op = "get_all_stores"
    /\ resp.code = 200
    /\ resp.query = EmptyDict
    /\ Len(stores[1].menu) = 2
    /\ stores[1].menu # SeedStores[1].menu
    /\ resp.data[1].menu = stores[1].menu

(***************************************************************************)
(* Claims about reviews and ratings, checked under SpecRatings.            *)
(***************************************************************************)

\* The menu item a store response is about, in a stores collection.
ItemOf(coll, response) ==
    LET s == FindStore(coll, response.store_id)
    IN  coll[s].menu[FindItem(coll[s].menu, response.item_id)]

\* The response is about an item that exists in the stores collection.
ItemExists(coll, response) ==
    /\ FindStore(coll, response.store_id) # 0
    /\ FindItem(coll[FindStore(coll, response.store_id)].menu, response.item_id) # 0

\* C6: once a create_review for (s, i) has completed with nothing interleaved,
\* s existing with an item i on its menu, the item's review_count is the number
\* N of stored approved reviews of (s, i) and its rating is
\* round(sum of their ratings / N, 1); and update_item_rating sets 4.0 and 0
\* for a pair with no approved review.
C6_RatingMatchesReviews ==
    /\ (resp.op = "create_review" /\ resp.code = 200 /\ ItemExists(stores, resp)) =>
          LET Approved(r) == /\ r.store_id = resp.store_id
                             /\ r.item_id = resp.item_id
                             /\ r.status = "approved"
              revs == SelectSeq(reviews, Approved)
              N == Len(revs)
          IN  /\ ItemOf(stores, resp).review_count = N
              /\ ItemOf(stores, resp).rating =
                    Round1(DivInts(SumRatings(revs, 1, N), N))
    /\ \A s \in StoreIdInputs, i \in ItemIdInputs :
          ApprovedReviews(reviews, s, i) = <<>> =>
             ScannedRating(reviews, s, i) = [rating |-> 40, review_count |-> 0]

\* C7: rate_menu_item with a value v in [1,5] on an existing item of rating r
\* and review_count c (4.0 and 0 when absent) sets review_count to c + 1 and
\* rating to round((r * c + v) / (c + 1), 1) and returns the two; from
\* (4.0, 0), a 5 gives (5.0, 1) and then a 3 gives (4.0, 2).
C7_RateSetsWeightedAverage ==
    /\ [](NewRating(40, 0, 5) = 50 /\ NewRating(50, 1, 3) = 40)
    /\ [][(/\ resp'.seq # resp.seq
           /\ resp'.op = "rate_menu_item"
           /\ resp'.rating >= 1 /\ resp'.rating <= 5
           /\ ItemExists(stores, resp')) =>
             LET r == DictGet(ItemOf(stores, resp'), "rating", 40)
                 c == DictGet(ItemOf(stores, resp'), "review_count", 0)
                 after == ItemOf(stores', resp')
             IN  /\ after.review_count = c + 1
                 /\ after.rating =
                       Round1(DivSmall(AddInt(MulSmall(FromTenths(r), c), resp'.rating),
                                       c + 1))
                 /\ resp'.code = 200
                 /\ resp'.data = [new_rating |-> after.rating, review_count |-> c + 1]
         ]_vars

\* C11: whatever create_review, rate_menu_item, update_menu_item and
\* update_store_menu calls have been made, every menu item has
\* review_count >= 0, and every menu item with review_count >= 1 has a rating
\* from 1.0 to 5.0.
C11_CountAndRatingInRange ==
    \A s \in DOMAIN stores : \A i \in DOMAIN stores[s].menu :
        LET item == stores[s].menu[i]
            review_count == IF "review_count" \in DOMAIN item THEN item.review_count ELSE 0
            rating == IF "rating" \in DOMAIN item THEN item.rating ELSE 40
        IN  /\ review_count >= 0
            /\ review_count >= 1 => (10 <= rating /\ rating <= 50)

\* C17: create_review and rate_menu_item with a rating below 1 or above 5 are
\* refused with a client error: no review is inserted and no menu item's
\* rating or review_count (no store document at all) changes.
C17_OutOfRangeRejected ==
    [][(/\ resp'.seq # resp.seq
        /\ resp'.op \in {"create_review", "rate_menu_item"}
        /\ (resp'.rating < 1 \/ resp'.rating > 5)) =>
          /\ resp'.code >= 400 /\ resp'.code < 500
          /\ reviews' = reviews
          /\ stores' = stores]_vars

\* A review of a stored item with 0 stars has been refused, as the second
\* request served.
C17_Witness ==
    /\ resp.op = "create_review"
    /\ resp.rating = 0
    /\ resp.code = 422
    /\ resp.store_id = 1 /\ resp.item_id = 1
    /\ nsteps = 2

\* C22: once a create_review on an existing item has completed, the item's
\* rating and review_count are the ones computed from the stored approved
\* reviews of the pair alone, whatever earlier rate_menu_item calls had made
\* of them; a rate_menu_item that follows it succeeds, adds 1 to that
\* review-derived count and inserts no review.
C22_ReviewsOverrideRatings ==
    [][/\ (/\ resp'.seq # resp.seq
           /\ resp'.op = "create_review"
           /\ resp'.code = 200
           /\ ItemExists(stores, resp')) =>
             LET derived == ScannedRating(reviews', resp'.store_id, resp'.item_id)
             IN  /\ ItemOf(stores', resp').rating = derived.rating
                 /\ ItemOf(stores', resp').review_count = derived.review_count
       /\ (/\ resp'.seq # resp.seq
           /\ resp'.op = "rate_menu_item"
           /\ resp'.rating >= 1 /\ resp'.rating <= 5
           /\ resp.op = "create_review"
           /\ resp.code = 200
           /\ resp.store_id = resp'.store_id
           /\ resp.item_id = resp'.item_id
           /\ ItemExists(stores, resp')) =>
             /\ resp'.code = 200
             /\ reviews' = reviews
             /\ ItemOf(stores', resp').review_count =
                   ScannedRating(reviews, resp'.store_id, resp'.item_id).review_count + 1
      ]_vars

\* Item 1 of store 1, seeded with a review_count of 45, has been reviewed and
\* then rated: its two approved reviews and the rating make a count of 3.
C22_Witness ==
    /\ resp.op = "rate_menu_item"
    /\ resp.code = 200
    /\ resp.store_id = 1 /\ resp.item_id = 1
    /\ Len(ApprovedReviews(reviews, 1, 1)) = 2
    /\ ItemOf(stores, resp).review_count = 3

\* C23: a create_review with a valid rating succeeds and inserts its review
\* as approved even when no store has its store_id, and then changes no store
\* document; when the store exists and no item of its menu has the item_id,
\* no menu of any store changes.
C23_ReviewOfUnknownTarget ==
    [][(/\ resp'.seq # resp.seq
        /\ resp'.op = "create_review"
        /\ resp'.rating >= 1 /\ resp'.rating <= 5
        /\ ~ItemExists(stores, resp')) =>
          /\ resp'.code = 200
          /\ Len(reviews') = Len(reviews) + 1
          /\ SubSeq(reviews', 1, Len(reviews)) = reviews
          /\ reviews'[Len(reviews')].store_id = resp'.store_id
          /\ reviews'[Len(reviews')].item_id = resp'.item_id
          /\ reviews'[Len(reviews')].rating = resp'.rating
          /\ reviews'[Len(reviews')].status = "approved"
          /\ FindStore(stores, resp'.store_id) = 0 => stores' = stores
          /\ Len(stores') = Len(stores)
          /\ \A s \in DOMAIN stores : stores'[s].menu = stores[s].menu]_vars

\* A review for a store that does not exist is the last one stored.
C23_Witness ==
    /\ resp.op = "create_review"
    /\ resp.code = 200
    /\ resp.store_id = 99
    /\ reviews[Len(reviews)].store_id = 99
    /\ reviews[Len(reviews)].status = "approved"
    /\ FindStore(stores, 99) = 0

\* C24: in every reachable state the items of a store's menu have pairwise
\* distinct ids.
C24_ItemIdsDistinct ==
    \A s \in DOMAIN stores : \A i, j \in DOMAIN stores[s].menu :
        (/\ "id" \in DOMAIN stores[s].menu[i]
         /\ "id" \in DOMAIN stores[s].menu[j]
         /\ stores[s].menu[i].id = stores[s].menu[j].id) => i = j

(***************************************************************************)
(* Claims about store and review requests that overlap, checked under      *)
(* SpecRatingsConcurrent.                                                  *)
(***************************************************************************)

\* The item a request is about, in a stores collection.
ItemOfRequest(coll, request) ==
    LET s == FindStore(coll, request.store_id)
    IN  coll[s].menu[FindItem(coll[s].menu, request.item_id)]

\* No request is between two of its database calls.
Quiescent == \A k \in Slots : sreq[k].pc \in {"idle", "done"}

\* C21: a rate_menu_item request that has read the store document always
\* succeeds; and when two such requests on one item have both read the same
\* rating r and count c before either wrote, then once the second has written
\* the item has review_count c + 1, not c + 2, and the rating
\* round((r * c + v) / (c + 1), 1) of the value v of the request that wrote
\* last: the other rating is lost.
C21_LostRating ==
    [][\A a \in Slots :
          (sreq[a].pc = "rate_write" /\ sreq'[a].pc = "done") =>
             /\ resp'.seq = a
             /\ resp'.code = 200
             /\ \A b \in Slots :
                   (/\ b # a
                    /\ sreq[b].pc = "done"
                    /\ sreq[b].op = "rate_menu_item"
                    /\ sreq[b].code = 200
                    /\ sreq[b].store_id = sreq[a].store_id
                    /\ sreq[b].item_id = sreq[a].item_id
                    /\ sreq[b].read = sreq[a].read) =>
                      LET r == sreq[a].read.rating
                          c == sreq[a].read.review_count
                          after == ItemOfRequest(stores', sreq[a])
                      IN  /\ after.review_count = c + 1
                          /\ after.rating =
                                Round1(DivSmall(AddInt(MulSmall(FromTenths(r), c),
                                                       sreq[a].body), c + 1))
                          /\ resp'.data = [new_rating |-> after.rating,
                                           review_count |-> c + 1]]_vars

\* Two ratings of item 1 of store 1, both made on the seeded count of 45, have
\* both succeeded, and the item has a count of 46.
C21_Witness ==
    /\ \A k \in {1, 2} :
          /\ sreq[k].pc = "done"
          /\ sreq[k].op = "rate_menu_item"
          /\ sreq[k].code = 200
          /\ sreq[k].store_id = 1 /\ sreq[k].item_id = 1
          /\ sreq[k].read.review_count = 45
    /\ sreq[1].body # sreq[2].body
    /\ ItemOfRequest(stores, sreq[1]).review_count = 46

\* C27: once all of a set of overlapping create_review requests for one
\* existing item have completed, the item's review_count is the number of
\* stored approved reviews of the pair and its rating is their average
\* rounded to one decimal, whatever the interleaving of their steps.
C27_ConcurrentReviewsCounted ==
    \A a \in Slots :
       (/\ Quiescent
        /\ sreq[a].pc = "done"
        /\ \A b \in Slots : sreq[b].pc = "done" =>
              /\ sreq[b].op = "create_review"
              /\ sreq[b].code = 200
              /\ sreq[b].store_id = sreq[a].store_id
              /\ sreq[b].item_id = sreq[a].item_id
        /\ FindStore(stores, sreq[a].store_id) # 0
        /\ FindItem(stores[FindStore(stores, sreq[a].store_id)].menu,
                    sreq[a].item_id) # 0) =>
          LET revs == ApprovedReviews(reviews, sreq[a].store_id, sreq[a].item_id)
              N == Len(revs)
          IN  /\ ItemOfRequest(stores, sreq[a]).review_count = N
              /\ ItemOfRequest(stores, sreq[a]).rating =
                    Round1(DivInts(SumRatings(revs, 1, N), N))

\* C28: when a rating update for item i (a rate_menu_item or a create_review)
\* and an update_menu_item or rate_menu_item on another item j of the same
\* store have both completed, whatever their interleaving, the change made to
\* j is in the stored menu: j has the fields of the body, or the count that
\* the rating of j gave it.
C28_OtherItemsKept ==
    \A a, b \in Slots :
       (/\ Quiescent
        /\ a # b
        /\ sreq[a].pc = "done" /\ sreq[b].pc = "done"
        /\ \A k \in Slots \ {a, b} : sreq[k].pc = "idle"
        /\ sreq[a].op \in {"rate_menu_item", "create_review"}
        /\ sreq[b].op \in {"rate_menu_item", "update_menu_item"}
        /\ sreq[a].code = 200 /\ sreq[b].code = 200
        /\ sreq[a].store_id = sreq[b].store_id
        /\ sreq[a].item_id # sreq[b].item_id) =>
          LET item == ItemOfRequest(stores, sreq[b])
          IN  IF sreq[b].op = "update_menu_item"
              THEN \A k \in DOMAIN sreq[b].body :
                      k \in DOMAIN item /\ item[k] = sreq[b].body[k]
              ELSE item.review_count = sreq[b].read.review_count + 1

(***************************************************************************)
(* Claims about the hunger level, checked under SpecHunger.                *)
(***************************************************************************)

\* floor(base) of the claim: base is min(active_count, 100), and
\* min(that * 1.5, 100) in the hours 11..14 and 18..21.
C8_FloorOfBase(active_count, hour) ==
    LET capped == IF active_count < 100 THEN active_count ELSE 100
        peaked == (capped * 3) \div 2
    IN  IF hour \in (11..14) \cup (18..21)
        THEN (IF peaked < 100 THEN peaked ELSE 100)
        ELSE capped

\* C8: whatever the number of presence records and the hour, the hunger_level
\* of get_hunger_level and of get_active_user_stats is an integer in [0,100],
\* the floor of base, where the active count is the number of records whose
\* last_activity lies within the last 5 minutes; 50 active users give 75 at
\* hour 12 and 50 at hour 9.
C8_HungerIsFloorOfBase ==
    /\ [](HungerLevel(50, 12) = 75 /\ HungerLevel(50, 9) = 50)
    /\ [][(resp'.seq # resp.seq
           /\ resp'.op \in {"get_hunger_level", "get_active_user_stats"}) =>
             LET active_count ==
                     Cardinality({i \in DOMAIN active_users :
                         active_users[i].last_activity >= now - (5 * 60 * 1000)})
             IN  /\ resp'.data.hunger_level \in 0..100
                 /\ resp'.data.hunger_level =
                       C8_FloorOfBase(active_count, (now \div (60 * 60 * 1000)) % 24)
         ]_vars

(***************************************************************************)
(* Claims about presence records, checked under SpecPresence.              *)
(***************************************************************************)

\* C9: whatever add_active_user, update_user_activity and remove_active_user
\* calls have been made, no two presence records have the same user_id; and
\* after an add_active_user the user has exactly one record, whose session_id,
\* is_ordering, current_store and device_info are those of that call.
C9_OneRecordPerUser ==
    /\ \A i, j \in DOMAIN active_users :
          active_users[i].user_id = active_users[j].user_id => i = j
    /\ resp.op = "add_active_user" =>
          LET Mine(u) == u.user_id = resp.user_id
              mine == SelectSeq(active_users, Mine)
          IN  /\ Len(mine) = 1
              /\ mine[1].session_id = resp.body.session_id
              /\ mine[1].is_ordering = DictGet(resp.body, "is_ordering", FALSE)
              /\ mine[1].current_store = DictGet(resp.body, "current_store", None)
              /\ mine[1].device_info = DictGet(resp.body, "device_info", EmptyDict)

\* Reached: a second add_active_user for a user whose record another call had
\* written with a different session, store and device.
C9_Witness ==
    /\ resp.op = "add_active_user"
    /\ resp.before # <<>>
    /\ resp.before[1].session_id # resp.body.session_id
    /\ resp.before[1].device_info # DictGet(resp.body, "device_info", EmptyDict)
    /\ Len(active_users) = 2

\* C12: after add_active_user the presence record of its user_id holds only
\* the seven fields of the heartbeat; a field that an earlier
\* update_user_activity merged into the record is gone.
C12_HeartbeatReplacesRecord ==
    resp.op = "add_active_user" =>
        LET i == FindUser(active_users, resp.user_id)
        IN  /\ i # 0
            /\ DOMAIN active_users[i] =
                  {"user_id", "session_id", "timestamp", "is_ordering",
                   "current_store", "device_info", "last_activity"}

\* C13: update_user_activity for a user_id without a presence record answers
\* 404 and leaves the collection as it was; for a user_id with a record it
\* succeeds, sets the supplied fields and last_activity in that record, and
\* leaves its other fields and all other records as they were.
C13_ActivityMergedOrNotFound ==
    [][(resp'.seq # resp.seq /\ resp'.op = "update_user_activity") =>
          LET i == FindUser(active_users, resp'.user_id)
              body == resp'.body
          IN  IF i = 0
              THEN resp'.code = 404 /\ active_users' = active_users
              ELSE /\ resp'.code = 200
                   /\ Len(active_users') = Len(active_users)
                   /\ \A j \in DOMAIN active_users :
                         j # i => active_users'[j] = active_users[j]
                   /\ DOMAIN active_users'[i] =
                         DOMAIN active_users[i] \cup DOMAIN body \cup {"last_activity"}
                   /\ \A k \in DOMAIN active_users'[i] :
                         IF k \in DOMAIN body THEN active_users'[i][k] = body[k]
                         ELSE IF k = "last_activity" THEN active_users'[i][k] = now
                         ELSE active_users'[i][k] = active_users[i][k]]_vars

\* C29: after a successful update_user_activity(u, body), whatever the body,
\* the record that was matched still has user_id u and has the time of the
\* call as its last_activity, so it is inside the activity window.
C29_ActivityKeepsUserId ==
    [][(/\ resp'.seq # resp.seq
        /\ resp'.op = "update_user_activity"
        /\ resp'.code = 200) =>
          LET i == FindUser(active_users, resp'.user_id)
          IN  /\ active_users'[i].user_id = resp'.user_id
              /\ active_users'[i].last_activity = now
              /\ active_users'[i].last_activity >= FiveMinAgo(now)]_vars

(***************************************************************************)
(* Claims about hunger-level requests that overlap presence writes,        *)
(* checked under SpecPresenceConcurrent.                                   *)
(***************************************************************************)

\* C30: every response of get_hunger_level has ordering_users <= active_users,
\* also when heartbeats, activity updates or removals run between its two
\* counts.
C30_OrderingAtMostActive ==
    resp.op = "get_hunger_level" =>
        resp.data.ordering_users <= resp.data.active_users

(***************************************************************************)
(* Claims about the activity window, checked under SpecHunger.             *)
(***************************************************************************)

\* C16: get_active_user_count, get_hunger_level and get_active_user_stats
\* count a presence record exactly when its last_activity is at most five
\* minutes before the query, and a read removes or changes no record: a
\* record whose last heartbeat is older stays stored without being counted.
C16_CountedExactlyWhenRecent ==
    [][(/\ resp'.seq # resp.seq
        /\ resp'.op \in {"get_active_user_count", "get_hunger_level",
                          "get_active_user_stats"}) =>
          /\ active_users' = active_users
          /\ (IF resp'.op = "get_active_user_count"
               THEN resp'.data.count ELSE resp'.data.active_users) =
                Cardinality({i \in DOMAIN active_users :
                    active_users[i].last_activity >= now - (WindowMinutes * MsPerMinute)})]_vars

====
